---- MODULE Spec2Model ----
(***************************************************************************)
(* Model of the body-type classifier of body_classifier.py: the landmark   *)
(* measurement step, the score-based classification and the two analysis   *)
(* entry points analyze_image and analyze_body_type.                       *)
(*                                                                         *)
(* Numbers are exact rationals <<n, d>> with d > 0, kept in lowest terms.  *)
(* The code computes in binary floating point; the model computes the same *)
(* expressions exactly, over inputs that floating point represents exactly *)
(* (small integers and multiples of 1/16).                                 *)
(***************************************************************************)
EXTENDS Integers, Sequences, FiniteSets, TLC

VARIABLES
    pc,             \* the step the request is at
    entry,          \* the function the caller invoked
    image_path,     \* the image file handed to the entry point
    landmarks,      \* analyze_image: landmarks
    image,          \* analyze_image: image
    measurements,   \* analyze_image: measurements (the argument, when
                    \* classify_body_type is called directly)
    classification, \* analyze_image: (body_type, confidence, all_scores)
    result,         \* what analyze_image returned
    returned,       \* what the entry point returned to its caller
    raised,         \* the exception the entry point let through, if any
    temp_path,      \* app.main: temp_path
    files,          \* the temporary files that exist
    created,        \* the temporary files created so far
    unlink_calls,   \* the paths os.unlink was called with, in order
    stdout,         \* cli_test: what was printed, in order
    output_file     \* cli_test: the analysis_result_<basename>.json file

vars == <<pc, entry, image_path, landmarks, image, measurements,
          classification, result, returned, raised,
          temp_path, files, created, unlink_calls, stdout, output_file>>

\* the state of the Streamlit handler, which the classifier never touches
app_vars == <<temp_path, files, created, unlink_calls>>

\* the state of the command-line tool
cli_vars == <<stdout, output_file>>

----------------------------------------------------------------------------
(* Bounds of the model.                                                    *)

\* landmark x coordinates are the multiples 0/16, 1/16, ..., MaxX/16
MaxX == 10

\* widths handed directly to classify_body_type are 0..MaxWidth
MaxWidth == 8

----------------------------------------------------------------------------
(* Exact rational arithmetic.                                              *)

AbsInt(i) == IF i < 0 THEN -i ELSE i

RECURSIVE GCD(_, _)
GCD(a, b) == IF b = 0 THEN a ELSE GCD(b, a % b)

\* n/d in lowest terms, d > 0
Rat(n, d) ==
    LET g == GCD(AbsInt(n), AbsInt(d))
        s == IF d < 0 THEN -1 ELSE 1
    IN  <<(s * n) \div g, (s * d) \div g>>

RInt(i) == <<i, 1>>
RAdd(a, b) == Rat(a[1] * b[2] + b[1] * a[2], a[2] * b[2])
RSub(a, b) == Rat(a[1] * b[2] - b[1] * a[2], a[2] * b[2])
RMul(a, b) == Rat(a[1] * b[1], a[2] * b[2])
\* defined for b # 0 only
RDiv(a, b) == Rat(a[1] * b[2], a[2] * b[1])
RLt(a, b) == a[1] * b[2] < b[1] * a[2]
RLe(a, b) == a[1] * b[2] <= b[1] * a[2]
RAbs(a) == <<AbsInt(a[1]), a[2]>>
RMin(a, b) == IF RLe(a, b) THEN a ELSE b
RZero == RInt(0)
ROne == RInt(1)

----------------------------------------------------------------------------
(* Values that are absent, and exceptions.                                 *)

\* Python's None for a variable that holds a record or a list otherwise
None == <<>>

\* an exception travelling up from a call
Raise(e) == [raise |-> e]
IsRaise(v) == "raise" \in DOMAIN v

----------------------------------------------------------------------------
(* The recommendation table self.body_types.                               *)

body_types ==
    [Rectangle |->
        [description |-> "Balanced proportions with similar shoulder, waist, and hip measurements",
         tops |-> <<"Peplum tops", "Wrap tops", "Fitted blazers", "Cropped jackets">>,
         bottoms |-> <<"High-waisted jeans", "A-line skirts", "Wide-leg pants", "Bootcut jeans">>,
         dresses |-> <<"Wrap dresses", "Fit-and-flare dresses", "Belted dresses", "Sheath dresses">>,
         avoid |-> <<"Straight-cut tops", "Boxy clothing", "Drop-waist dresses">>],
     Pear |->
        [description |-> "Hips wider than shoulders, well-defined waist",
         tops |-> <<"Boat necks", "Off-shoulder tops", "Bright colored tops", "Statement sleeves">>,
         bottoms |-> <<"Dark colored bottoms", "Straight-leg jeans", "Bootcut pants", "A-line skirts">>,
         dresses |-> <<"A-line dresses", "Fit-and-flare dresses", "Empire waist dresses">>,
         avoid |-> <<"Skinny jeans", "Tight bottoms", "Hip details", "Light colored bottoms">>],
     Apple |->
        [description |-> "Fuller midsection with less defined waist",
         tops |-> <<"V-neck tops", "Empire waist tops", "Tunic tops", "Wrap tops">>,
         bottoms |-> <<"Straight-leg pants", "Bootcut jeans", "A-line skirts", "High-waisted bottoms">>,
         dresses |-> <<"Empire waist dresses", "A-line dresses", "Wrap dresses", "V-neck dresses">>,
         avoid |-> <<"Tight tops", "Belts at natural waist", "Clingy fabrics", "Crop tops">>],
     Hourglass |->
        [description |-> "Balanced bust and hips with a well-defined waist",
         tops |-> <<"Fitted tops", "Wrap tops", "V-neck tops", "Scoop necks">>,
         bottoms |-> <<"High-waisted jeans", "Pencil skirts", "Fitted pants", "Bootcut jeans">>,
         dresses |-> <<"Wrap dresses", "Bodycon dresses", "Fit-and-flare dresses", "Belted dresses">>,
         avoid |-> <<"Oversized clothing", "Loose fits", "Low-rise pants", "Boxy tops">>]]
    @@ ("Inverted Triangle" :>
        [description |-> "Broader shoulders than hips",
         tops |-> <<"V-neck tops", "Scoop necks", "Soft fabrics", "Darker colored tops">>,
         bottoms |-> <<"Wide-leg pants", "Flared jeans", "Bright colored bottoms", "Detailed bottoms">>,
         dresses |-> <<"A-line dresses", "Fit-and-flare dresses", "Peplum dresses">>,
         avoid |-> <<"Shoulder pads", "Boat necks", "Horizontal stripes on top", "Strapless tops">>])

----------------------------------------------------------------------------
(* classify_body_type.                                                     *)

\* shoulder / hip if hip > 0 else 1
shoulder_hip_ratio(m) ==
    IF RLt(RZero, m.hip_width) THEN RDiv(m.shoulder_width, m.hip_width) ELSE ROne

\* waist / hip if hip > 0 else 1
waist_hip_ratio(m) ==
    IF RLt(RZero, m.hip_width) THEN RDiv(m.waist_width, m.hip_width) ELSE ROne

\* shoulder / waist if waist > 0 else 1 (computed by the code, used by no rule)
shoulder_waist_ratio(m) ==
    IF RLt(RZero, m.waist_width) THEN RDiv(m.shoulder_width, m.waist_width) ELSE ROne

\* the Rectangle rule over the wider band 0.75 <= shoulder_hip_ratio <= 1.25,
\* at whose ends its score is 0.5
RectangleCond_WideBand(shr, whr) ==
    RLe(Rat(75, 100), shr) /\ RLe(shr, Rat(125, 100)) /\ RLt(Rat(75, 100), whr)

\* 0.85 <= shoulder_hip_ratio <= 1.15 and waist_hip_ratio > 0.75
RectangleCond(shr, whr) ==
    RLe(Rat(85, 100), shr) /\ RLe(shr, Rat(115, 100)) /\ RLt(Rat(75, 100), whr)

\* min(1.0, 1.0 - abs(shoulder_hip_ratio - 1.0) * 2)
RectangleScore(shr) ==
    RMin(ROne, RSub(ROne, RMul(RAbs(RSub(shr, ROne)), RInt(2))))

\* shoulder_hip_ratio < 0.85
PearCond(shr) == RLt(shr, Rat(85, 100))

\* the Pear score measured from 1.0 instead of from the 0.85 threshold
PearScore_FromOne(shr) == RMin(ROne, RMul(RSub(ROne, shr), RInt(2)))

\* min(1.0, (0.85 - shoulder_hip_ratio) * 2)
PearScore(shr) == RMin(ROne, RMul(RSub(Rat(85, 100), shr), RInt(2)))

\* shoulder_hip_ratio > 1.15
InvertedTriangleCond(shr) == RLt(Rat(115, 100), shr)

\* the Inverted Triangle score without its min(1.0, ...) cap
InvertedTriangleScore_Uncapped(shr) == RMul(RSub(shr, Rat(115, 100)), RInt(2))

\* the Inverted Triangle score rising twice as fast: min(1.0, (r - 1.15) * 4)
InvertedTriangleScore_Steep(shr) == RMin(ROne, RMul(RSub(shr, Rat(115, 100)), RInt(4)))

\* min(1.0, (shoulder_hip_ratio - 1.15) * 2)
InvertedTriangleScore(shr) == RMin(ROne, RMul(RSub(shr, Rat(115, 100)), RInt(2)))

\* the Apple rule without its shoulder/hip guard
AppleCond_WaistOnly(shr, whr) == RLt(Rat(85, 100), whr)

\* waist_hip_ratio > 0.85 and shoulder_hip_ratio > 0.9
AppleCond(shr, whr) == RLt(Rat(85, 100), whr) /\ RLt(Rat(9, 10), shr)

\* min(1.0, waist_hip_ratio)
AppleScore(whr) == RMin(ROne, whr)

\* 0.9 <= shoulder_hip_ratio <= 1.1 and waist_hip_ratio < 0.75
HourglassCond(shr, whr) ==
    RLe(Rat(9, 10), shr) /\ RLe(shr, Rat(11, 10)) /\ RLt(whr, Rat(75, 100))

\* min(1.0, 1.0 - waist_hip_ratio)
HourglassScore(whr) == RMin(ROne, RSub(ROne, whr))

\* The dict confidence_scores after the five rules, as the sequence of its
\* (key, value) items in insertion order.
RuleScores(shr, whr) ==
    LET s1 == IF RectangleCond(shr, whr)
              THEN <<<<"Rectangle", RectangleScore(shr)>>>> ELSE <<>>
        s2 == IF PearCond(shr)
              THEN Append(s1, <<"Pear", PearScore(shr)>>) ELSE s1
        s3 == IF InvertedTriangleCond(shr)
              THEN Append(s2, <<"Inverted Triangle", InvertedTriangleScore(shr)>>) ELSE s2
        s4 == IF AppleCond(shr, whr)
              THEN Append(s3, <<"Apple", AppleScore(whr)>>) ELSE s3
        s5 == IF HourglassCond(shr, whr)
              THEN Append(s4, <<"Hourglass", HourglassScore(whr)>>) ELSE s4
    IN  s5

\* the default entry left out: the dict stays empty when no rule matched
WithDefault_Omitted(scores) == scores

\* the default entry under a label the recommendation table does not have
WithDefault_Unknown(scores) ==
    IF scores = <<>> THEN <<<<"Unknown", Rat(1, 2)>>>> ELSE scores

\* if not confidence_scores: confidence_scores['Rectangle'] = 0.5
WithDefault(scores) ==
    IF scores = <<>> THEN <<<<"Rectangle", Rat(1, 2)>>>> ELSE scores

\* first match wins: the first inserted key, whatever the scores
MaxIndex_FirstItem(scores) == IF scores = <<>> THEN 0 ELSE 1

\* max() resolving a tie towards the key inserted last
MaxIndex_LastOfTies(scores) ==
    IF scores = <<>> THEN 0
    ELSE CHOOSE i \in 1..Len(scores) :
            /\ \A j \in 1..Len(scores) : RLe(scores[j][2], scores[i][2])
            /\ \A j \in (i + 1)..Len(scores) : RLt(scores[j][2], scores[i][2])

\* max(confidence_scores, key=confidence_scores.get): the index of the first
\* item, in insertion order, that no item beats; 0 for an empty dict, where
\* max() raises ValueError
MaxIndex(scores) ==
    IF scores = <<>> THEN 0
    ELSE CHOOSE i \in 1..Len(scores) :
            /\ \A j \in 1..Len(scores) : RLe(scores[j][2], scores[i][2])
            /\ \A j \in 1..(i - 1) : RLt(scores[j][2], scores[i][2])

\* the tuple (body_type, confidence, confidence_scores) the function returns
classify_body_type(m) ==
    LET shr == shoulder_hip_ratio(m)
        whr == waist_hip_ratio(m)
        confidence_scores == WithDefault(RuleScores(shr, whr))
        i == MaxIndex(confidence_scores)
    IN  IF i = 0 THEN Raise("ValueError")
        ELSE [body_type |-> confidence_scores[i][1],
              confidence |-> confidence_scores[i][2],
              all_scores |-> confidence_scores]

----------------------------------------------------------------------------
(* The pose model's output and extract_landmarks.                          *)

\* mp_pose.PoseLandmark indices of the four joints the code reads
LEFT_SHOULDER == 11
RIGHT_SHOULDER == 12
LEFT_HIP == 23
RIGHT_HIP == 24

KeyPoints == {LEFT_SHOULDER, RIGHT_SHOULDER, LEFT_HIP, RIGHT_HIP}

\* a normalised image coordinate: a multiple of 1/16, which binary floating
\* point represents exactly, so that the widths, the 0.75 product and every
\* comparison of a ratio with a threshold come out in the code as they do
\* in exact arithmetic
Coord(k) == Rat(k, 16)

\* y grid position of each joint (held fixed: no width depends on it)
YOf(i) == IF i \in {LEFT_SHOULDER, RIGHT_SHOULDER} THEN 2
          ELSE IF i = LEFT_HIP THEN 6 ELSE 5

\* the joints the pose model may report with visibility 0: none or one
InvisibleSets == {{}} \cup {{k} : k \in KeyPoints}

\* the landmark lists a pose can carry: a list of `n` landmarks has the
\* indices 0..n-1, of which the model keeps the four key points. The left
\* joints lie anywhere on the x grid, the right ones at its first two
\* positions (so on either side of the left ones).
LandmarkLists ==
    { [i \in {k \in KeyPoints : k < n} |->
          [x |-> Coord(CASE i = LEFT_SHOULDER -> xls [] i = RIGHT_SHOULDER -> xrs
                         [] i = LEFT_HIP -> xlh [] OTHER -> xrh),
           y |-> Coord(YOf(i)),
           visibility |-> IF i \in invisible THEN RZero ELSE ROne]] :
      xls \in 0..MaxX, xrs \in 0..1, xlh \in 0..MaxX, xrh \in 0..1,
      invisible \in InvisibleSets,
      n \in KeyPoints \cup {RIGHT_HIP + 1} }

\* the image files a caller can hand in: unreadable, readable with no pose,
\* readable with a pose
Images ==
    {[readable |-> FALSE, pose_landmarks |-> None],
     [readable |-> TRUE, pose_landmarks |-> None]}
    \cup {[readable |-> TRUE, pose_landmarks |-> [landmark |-> lm]] :
          lm \in LandmarkLists}

\* extract_landmarks: raises ValueError for an unreadable image, else the
\* pair (results.pose_landmarks or None, image_rgb)
extract_landmarks(path) ==
    IF ~path.readable THEN Raise("ValueError")
    ELSE [landmarks |-> path.pose_landmarks, image |-> "image_rgb"]

----------------------------------------------------------------------------
(* calculate_body_measurements.                                            *)

\* the waist estimated from both widths: (shoulder_width + hip_width) / 2.2
WaistEstimate_FromBoth(shoulder_width, hip_width) ==
    RDiv(RAdd(shoulder_width, hip_width), Rat(22, 10))

\* waist_width = shoulder_width * 0.75
WaistEstimate(shoulder_width, hip_width) == RMul(shoulder_width, Rat(75, 100))

\* indexing the landmark list past its end raises IndexError
calculate_body_measurements(lms) ==
    LET lm == lms.landmark IN
    IF ~(KeyPoints \subseteq DOMAIN lm) THEN Raise("IndexError")
    ELSE
    LET left_shoulder == lm[LEFT_SHOULDER]
        right_shoulder == lm[RIGHT_SHOULDER]
        left_hip == lm[LEFT_HIP]
        right_hip == lm[RIGHT_HIP]
        shoulder_width == RAbs(RSub(left_shoulder.x, right_shoulder.x))
        hip_width == RAbs(RSub(left_hip.x, right_hip.x))
        waist_width == WaistEstimate(shoulder_width, hip_width)
        torso_length ==
            RAbs(RSub(RDiv(RAdd(left_shoulder.y, right_shoulder.y), RInt(2)),
                      RDiv(RAdd(left_hip.y, right_hip.y), RInt(2))))
    IN  [shoulder_width |-> shoulder_width,
         waist_width |-> waist_width,
         hip_width |-> hip_width,
         torso_length |-> torso_length]

----------------------------------------------------------------------------
(* The measurements a caller can hand to classify_body_type directly.      *)

Measurements ==
    {[shoulder_width |-> RInt(s), waist_width |-> RInt(w),
      hip_width |-> RInt(h), torso_length |-> ROne] :
     s \in 0..MaxWidth, w \in 0..MaxWidth, h \in 0..MaxWidth}

----------------------------------------------------------------------------
(* The state machine: one call of an entry point, step by step.            *)

EntryPoints == {"classify_body_type", "analyze_image", "analyze_body_type"}

\* no temporary file was ever made
NoTempFiles ==
    /\ temp_path = None
    /\ files = {}
    /\ created = {}
    /\ unlink_calls = <<>>

\* nothing was printed and no result file written
NoOutput == stdout = <<>> /\ output_file = None

Init ==
    /\ entry \in EntryPoints
    /\ IF entry = "classify_body_type"
       THEN /\ image_path = None
            /\ measurements \in Measurements
            /\ pc = "classify_body_type"
       ELSE /\ image_path \in Images
            /\ measurements = None
            /\ pc = "extract_landmarks"
    /\ landmarks = None
    /\ image = "None"
    /\ classification = None
    /\ result = None
    /\ returned = None
    /\ raised = "None"
    /\ NoTempFiles
    /\ NoOutput

\* analyze_image starting over after a failure instead of returning it
ReturnFromAnalyzeImage_Retry(r) ==
    /\ result' = r
    /\ IF ~r.success
       THEN returned' = returned /\ pc' = "extract_landmarks"
       ELSE IF entry = "analyze_image"
       THEN returned' = r /\ pc' = "done"
       ELSE returned' = returned /\ pc' = "convert"
    /\ raised' = raised

\* analyze_image returns r: to the caller, to analyze_body_type, or to
\* cli_test.main
ReturnFromAnalyzeImage(r) ==
    /\ result' = r
    /\ IF entry = "analyze_image"
       THEN returned' = r /\ pc' = "done"
       ELSE IF entry = "analyze_body_type"
       THEN returned' = returned /\ pc' = "convert"
       ELSE returned' = returned /\ pc' = "print_results"
    /\ raised' = raised

\* the except branch handing back the measurements taken so far with the error
ExceptInAnalyzeImage_WithMeasurements(e) ==
    ReturnFromAnalyzeImage([success |-> FALSE, error |-> e, image |-> "None",
                            measurements |-> measurements])

\* except Exception as e: return {'success': False, 'error': str(e), 'image': None}
ExceptInAnalyzeImage(e) ==
    ReturnFromAnalyzeImage([success |-> FALSE, error |-> e, image |-> "None"])

\* landmarks, image = self.extract_landmarks(image_path), and the
\* `landmarks is None` return
ExtractLandmarks ==
    /\ pc = "extract_landmarks"
    /\ LET r == extract_landmarks(image_path) IN
       IF IsRaise(r)
       THEN /\ ExceptInAnalyzeImage(r.raise)
            /\ UNCHANGED <<landmarks, image>>
       ELSE IF r.landmarks = None
       THEN /\ ReturnFromAnalyzeImage(
                   [success |-> FALSE,
                    error |-> "No pose detected in image. Please use a clear full-body image.",
                    image |-> r.image])
            /\ landmarks' = r.landmarks
            /\ image' = r.image
       ELSE /\ landmarks' = r.landmarks
            /\ image' = r.image
            /\ pc' = "calculate_body_measurements"
            /\ UNCHANGED <<result, returned, raised>>
    /\ UNCHANGED <<entry, image_path, measurements, classification>>
    /\ UNCHANGED <<app_vars, cli_vars>>

\* measurements = self.calculate_body_measurements(landmarks)
CalculateBodyMeasurements ==
    /\ pc = "calculate_body_measurements"
    /\ LET m == calculate_body_measurements(landmarks) IN
       IF IsRaise(m)
       THEN /\ ExceptInAnalyzeImage(m.raise)
            /\ UNCHANGED measurements
       ELSE /\ measurements' = m
            /\ pc' = "classify_body_type"
            /\ UNCHANGED <<result, returned, raised>>
    /\ UNCHANGED <<entry, image_path, landmarks, image, classification>>
    /\ UNCHANGED <<app_vars, cli_vars>>

\* body_type, confidence, all_scores = self.classify_body_type(measurements),
\* inside analyze_image or called directly
ClassifyBodyType ==
    /\ pc = "classify_body_type"
    /\ LET c == classify_body_type(measurements) IN
       IF entry = "classify_body_type"
       THEN /\ pc' = "done"
            /\ IF IsRaise(c)
               THEN raised' = c.raise /\ UNCHANGED <<classification, returned>>
               ELSE classification' = c /\ returned' = c /\ raised' = raised
            /\ UNCHANGED result
       ELSE IF IsRaise(c)
       THEN /\ ExceptInAnalyzeImage(c.raise)
            /\ UNCHANGED classification
       ELSE /\ classification' = c
            /\ pc' = "recommendations"
            /\ UNCHANGED <<result, returned, raised>>
    /\ UNCHANGED <<entry, image_path, landmarks, image, measurements>>
    /\ UNCHANGED <<app_vars, cli_vars>>

\* recommendations = self.body_types[body_type] and the success return
GetRecommendations ==
    /\ pc = "recommendations"
    /\ IF classification.body_type \notin DOMAIN body_types
       THEN ExceptInAnalyzeImage("KeyError")
       ELSE ReturnFromAnalyzeImage(
                [success |-> TRUE,
                 body_type |-> classification.body_type,
                 confidence |-> classification.confidence,
                 all_scores |-> classification.all_scores,
                 measurements |-> measurements,
                 recommendations |-> body_types[classification.body_type],
                 landmarks |-> landmarks,
                 image |-> image])
    /\ UNCHANGED <<entry, image_path, landmarks, image, measurements,
                   classification>>
    /\ UNCHANGED <<app_vars, cli_vars>>

\* analyze_body_type after its call of analyze_image: the failure record is
\* passed on, the success record is converted with unguarded divisions
AnalyzeBodyTypeConvert ==
    /\ pc = "convert"
    /\ pc' = "done"
    /\ IF ~result.success
       THEN /\ returned' = [success |-> FALSE, error |-> result.error]
            /\ raised' = raised
       ELSE LET m == result.measurements IN
            IF m.hip_width = RZero \/ m.shoulder_width = RZero
            THEN /\ raised' = "ZeroDivisionError"
                 /\ returned' = returned
            ELSE /\ returned' =
                      [success |-> TRUE,
                       body_type |-> result.body_type,
                       confidence |-> result.confidence,
                       measurements |->
                           [shoulder_hip_ratio |-> RDiv(m.shoulder_width, m.hip_width),
                            waist_hip_ratio |-> RDiv(m.waist_width, m.hip_width),
                            waist_definition |->
                                RSub(ROne, RDiv(m.waist_width, m.shoulder_width)),
                            torso_length |-> m.torso_length],
                       recommendations |-> result.recommendations]
                 /\ raised' = raised
    /\ UNCHANGED <<entry, image_path, landmarks, image, measurements,
                   classification, result>>
    /\ UNCHANGED <<app_vars, cli_vars>>

Next ==
    \/ ExtractLandmarks
    \/ CalculateBodyMeasurements
    \/ ClassifyBodyType
    \/ GetRecommendations
    \/ AnalyzeBodyTypeConvert

Spec == Init /\ [][Next]_vars

----------------------------------------------------------------------------
(* Properties.                                                             *)

BodyTypes == {"Rectangle", "Hourglass", "Inverted Triangle", "Pear", "Apple"}

\* classify_body_type was called on `measurements` and the call is over
ClassifyCalled ==
    /\ measurements # None
    /\ pc \in {"recommendations", "convert", "done"}

\* classify_body_type was called directly and the call is over
DirectDone == entry = "classify_body_type" /\ pc = "done"

\* C1: classify_body_type is total: for every measurements value with
\* non-negative widths (zero included) the call raises nothing and returns
\* one label, which is one of the five body types.
C1_ClassifyTotal ==
    /\ ClassifyCalled =>
          /\ classification # None
          /\ classification.body_type \in BodyTypes
    /\ DirectDone =>
          /\ raised = "None"
          /\ returned # None
          /\ returned.body_type \in BodyTypes

\* a direct call with hip_width = 0 came back with a label
C1_Witness ==
    /\ DirectDone
    /\ measurements.hip_width = RZero
    /\ returned # None
    /\ returned.body_type \in BodyTypes

\* C2: with hip_width > 0 and shoulder_width / hip_width > 1.15 the label is
\* Inverted Triangle, whatever the waist width.
C2_InvertedTriangleAbove115 ==
    (/\ ClassifyCalled
     /\ RLt(RZero, measurements.hip_width)
     /\ RLt(Rat(115, 100), RDiv(measurements.shoulder_width, measurements.hip_width)))
    => /\ classification # None
       /\ classification.body_type = "Inverted Triangle"

\* C3: with hip_width > 0 and shoulder_width / hip_width < 0.85 the label is
\* Pear, whatever the waist width.
C3_PearBelow085 ==
    (/\ ClassifyCalled
     /\ RLt(RZero, measurements.hip_width)
     /\ RLt(RDiv(measurements.shoulder_width, measurements.hip_width), Rat(85, 100)))
    => /\ classification # None
       /\ classification.body_type = "Pear"

\* a direct call with shoulder/hip < 0.85 and a waist as wide as the hips
\* came back Pear
C3_Witness ==
    /\ DirectDone
    /\ RLt(RZero, measurements.hip_width)
    /\ RLt(RDiv(measurements.shoulder_width, measurements.hip_width), Rat(85, 100))
    /\ RLe(measurements.hip_width, measurements.waist_width)
    /\ returned # None
    /\ returned.body_type = "Pear"

\* the request goes through analyze_image
ViaAnalyzeImage == entry \in {"analyze_image", "analyze_body_type"}

\* the pose reports one of the required landmarks with visibility 0
SomeInvisible(path) ==
    /\ path.readable
    /\ path.pose_landmarks # None
    /\ \E k \in DOMAIN path.pose_landmarks.landmark :
          path.pose_landmarks.landmark[k].visibility = RZero

\* C4: a landmark input whose shoulder width equals its hip width (both
\* > 0), with the estimated waist below both, is analysed as Hourglass.
\* (Stated for poses whose four landmarks are all visible.)
C4_SymmetricIsHourglass ==
    (/\ ViaAnalyzeImage
     /\ ClassifyCalled
     /\ ~SomeInvisible(image_path)
     /\ measurements.shoulder_width = measurements.hip_width
     /\ RLt(RZero, measurements.hip_width)
     /\ RLt(measurements.waist_width, measurements.shoulder_width)
     /\ RLt(measurements.waist_width, measurements.hip_width))
    => /\ classification # None
       /\ classification.body_type = "Hourglass"

\* the image cannot be analysed: unreadable, no pose, or one of the four
\* required landmarks missing
Unanalysable(path) ==
    \/ ~path.readable
    \/ path.pose_landmarks = None
    \/ ~(KeyPoints \subseteq DOMAIN path.pose_landmarks.landmark)

\* C5: analyze_image and analyze_body_type never raise, and for an image
\* that is unreadable, shows no pose or lacks a required landmark they
\* return an error record (success false, with an error reason).
C5_EntryPointsNeverRaise ==
    ViaAnalyzeImage =>
        /\ raised = "None"
        /\ pc = "done" =>
              /\ returned # None
              /\ Unanalysable(image_path) =>
                    /\ ~returned.success
                    /\ "error" \in DOMAIN returned

\* a width the analysis measured is zero
ZeroWidth ==
    /\ measurements # None
    /\ \/ measurements.hip_width = RZero
       \/ measurements.shoulder_width = RZero

\* C6: a zero width never makes the analysis fail: the call returns a
\* result (a success record from the analysis entry points), and the ratios
\* analyze_body_type reports over a zero hip width are the default 1.
C6_ZeroWidthDefaults ==
    (pc = "done" /\ ZeroWidth) =>
        /\ raised = "None"
        /\ returned # None
        /\ ViaAnalyzeImage => returned.success
        /\ (entry = "analyze_body_type" /\ measurements.hip_width = RZero) =>
              /\ returned.measurements.shoulder_hip_ratio = ROne
              /\ returned.measurements.waist_hip_ratio = ROne

\* C7: when any of the four source landmarks has visibility 0,
\* classify_body_type is not run and analyze_image returns an error record.
C7_NoClassificationWhenInvisible ==
    (ViaAnalyzeImage /\ SomeInvisible(image_path)) =>
        /\ classification = None
        /\ result # None => ~result.success

\* the condition and the score of each rule, by label
CondOf(l, shr, whr) ==
    CASE l = "Rectangle" -> RectangleCond(shr, whr)
      [] l = "Pear" -> PearCond(shr)
      [] l = "Inverted Triangle" -> InvertedTriangleCond(shr)
      [] l = "Apple" -> AppleCond(shr, whr)
      [] l = "Hourglass" -> HourglassCond(shr, whr)

ScoreOf(l, shr, whr) ==
    CASE l = "Rectangle" -> RectangleScore(shr)
      [] l = "Pear" -> PearScore(shr)
      [] l = "Inverted Triangle" -> InvertedTriangleScore(shr)
      [] l = "Apple" -> AppleScore(whr)
      [] l = "Hourglass" -> HourglassScore(whr)

\* the first rule, in the order Hourglass, Rectangle, Inverted Triangle,
\* Pear, whose condition holds; Apple when none does
FirstMatch(shr, whr) ==
    IF HourglassCond(shr, whr) THEN "Hourglass"
    ELSE IF RectangleCond(shr, whr) THEN "Rectangle"
    ELSE IF InvertedTriangleCond(shr) THEN "Inverted Triangle"
    ELSE IF PearCond(shr) THEN "Pear"
    ELSE "Apple"

C9_ConfidenceInUnitInterval ==
    ClassifyCalled =>
        /\ classification # None
        /\ RLe(RZero, classification.confidence)
        /\ RLe(classification.confidence, ROne)

\* a direct call whose Inverted Triangle score 2 * (r - 1.15) exceeds 1 came
\* back with confidence 1
C9_Witness ==
    /\ DirectDone
    /\ RLt(ROne, RMul(RSub(shoulder_hip_ratio(measurements), Rat(115, 100)), RInt(2)))
    /\ returned # None
    /\ returned.body_type = "Inverted Triangle"
    /\ returned.confidence = ROne

\* |shoulder_to_hip - 1.0|
Deviation(m) == RAbs(RSub(shoulder_hip_ratio(m), ROne))

\* what classify_body_type makes of each measurements value a caller can
\* hand in: the deviation of its ratio, the label and the confidence
DirectOutcomes ==
    {[deviation |-> Deviation(m),
      body_type |-> classify_body_type(m).body_type,
      confidence |-> classify_body_type(m).confidence] : m \in Measurements}

PayloadKeys == {"body_type", "confidence", "measurements", "recommendations"}

\* a record of one of the two shapes: all four payload keys and no error, or
\* an error and none of the payload keys
WellShaped(r) ==
    \/ PayloadKeys \subseteq DOMAIN r /\ "error" \notin DOMAIN r
    \/ "error" \in DOMAIN r /\ PayloadKeys \cap DOMAIN r = {}

\* C11: every record analyze_image or analyze_body_type returns carries
\* either body_type, confidence, measurements and recommendations and no
\* error, or an error and none of those four.
C11_ResultShape ==
    ViaAnalyzeImage =>
        /\ result # None => WellShaped(result)
        /\ returned # None => WellShaped(returned)

\* analyze_body_type returned a success record; the analyze_image call
\* inside it had returned one too
C11_Witness ==
    /\ entry = "analyze_body_type"
    /\ pc = "done"
    /\ returned # None
    /\ PayloadKeys \subseteq DOMAIN returned
    /\ PayloadKeys \subseteq DOMAIN result

\* a recommendation bundle with a description and four non-empty lists
NonEmptyBundle(b) ==
    /\ DOMAIN b = {"description", "tops", "bottoms", "dresses", "avoid"}
    /\ b.description # ""
    /\ \A k \in {"tops", "bottoms", "dresses", "avoid"} : Len(b[k]) > 0

\* C12: every label classify_body_type returns is a key of the
\* recommendation table body_types, each of the five body types has a
\* non-empty bundle there, and so once the classification inside
\* analyze_image has succeeded the lookup finds its bundle: the request ends
\* in a success record carrying the bundle of the label.
C12_LookupNeverMisses ==
    /\ \A l \in BodyTypes : l \in DOMAIN body_types /\ NonEmptyBundle(body_types[l])
    /\ (classification # None) => classification.body_type \in DOMAIN body_types
    /\ (ViaAnalyzeImage /\ classification # None /\ result # None) =>
          /\ result.success
          /\ result.body_type = classification.body_type
          /\ result.recommendations = body_types[classification.body_type]
          /\ NonEmptyBundle(result.recommendations)

\* analyze_image classified a pose by the Rectangle default and looked its
\* bundle up
C12_Witness ==
    /\ entry = "analyze_image"
    /\ pc = "done"
    /\ classification # None
    /\ classification.body_type = "Rectangle"
    /\ classification.confidence = Rat(1, 2)
    /\ result.success
    /\ result.recommendations = body_types["Rectangle"]

----------------------------------------------------------------------------
(* The recommendation lookup of analyze_image over any label: the request  *)
(* starts at the lookup step with a verdict whose label is one of the five *)
(* body types or a label the table does not have.                          *)

\* labels that are no key of self.body_types
UnrecognizedLabels == {"Unknown", "Oval", "rectangle"}

\* poses with all four joints present and visible
FullPoses ==
    {p \in Images : ~Unanalysable(p) /\ ~SomeInvisible(p)}

LookupInit ==
    /\ entry \in {"analyze_image", "analyze_body_type"}
    /\ image_path \in FullPoses
    /\ landmarks = image_path.pose_landmarks
    /\ image = "image_rgb"
    /\ measurements = calculate_body_measurements(landmarks)
    /\ \E l \in BodyTypes \cup UnrecognizedLabels :
          classification = [body_type |-> l,
                            confidence |-> Rat(1, 2),
                            all_scores |-> <<<<l, Rat(1, 2)>>>>]
    /\ pc = "recommendations"
    /\ result = None
    /\ returned = None
    /\ raised = "None"
    /\ NoTempFiles
    /\ NoOutput

LookupNext == GetRecommendations \/ AnalyzeBodyTypeConvert

LookupSpec == LookupInit /\ [][LookupNext]_vars

StepRank(p) ==
    CASE p = "extract_landmarks" -> 0
      [] p = "calculate_body_measurements" -> 1
      [] p = "classify_body_type" -> 2
      [] p = "recommendations" -> 3
      [] p = "convert" -> 4
      [] p = "done" -> 5

\* each step runs only after the one before it has delivered, and an error
\* (or no pose) leaves every later step not run
StepsInOrder ==
    ViaAnalyzeImage =>
        /\ pc = "calculate_body_measurements" => landmarks # None
        /\ measurements # None => landmarks # None
        /\ pc = "classify_body_type" => measurements # None
        /\ classification # None => measurements # None
        /\ pc = "recommendations" => classification # None
        /\ result # None =>
              /\ pc \in {"convert", "done"}
              /\ result.success => classification # None
              /\ ~result.success => classification = None
              /\ (~result.success /\ landmarks = None) => measurements = None

\* a step of the request moves forward in the pipeline, never back or
\* again, and once analyze_image has returned no pipeline step runs: what
\* the steps produced stays as it is
NoStepTwice ==
    ViaAnalyzeImage =>
        /\ StepRank(pc') > StepRank(pc)
        /\ result # None =>
              /\ result' = result
              /\ landmarks' = landmarks
              /\ measurements' = measurements
              /\ classification' = classification

\* C14: within one analyze_image request the steps run in order and at most
\* once each: measurement only after a pose was found, classification only
\* after measurement, lookup only after classification; once a step has
\* reported an error (or no pose) no later step runs and nothing is retried.
C14_StepsInOrderOnce == []StepsInOrder /\ [][NoStepTwice]_vars

\* the measurement step failed on a pose lacking a landmark: the request is
\* over with an error record, classification and lookup never ran
C14_Witness ==
    /\ entry = "analyze_image"
    /\ pc = "done"
    /\ landmarks # None
    /\ measurements = None
    /\ classification = None
    /\ ~result.success
    /\ result.error = "IndexError"

\* the measurement step of analyze_image has run
Measured == ViaAnalyzeImage /\ measurements # None

\* what calculate_body_measurements makes of each full pose
PoseMeasurements ==
    {calculate_body_measurements(p.pose_landmarks) : p \in FullPoses}

\* C15 as stated: the measured waist_width is (shoulder_width + hip_width) /
\* 2.2, a value that depends on both widths.
C15_WaistFromBothWidths ==
    Measured =>
        measurements.waist_width =
            RDiv(RAdd(measurements.shoulder_width, measurements.hip_width),
                 Rat(22, 10))

\* C15 as amended: the measured waist_width is 0.75 x shoulder_width; it
\* depends on the shoulder width alone, poses with the same shoulder width
\* get the same waist_width whatever their hip width.
C15_WaistFromShoulderOnly ==
    Measured =>
        /\ measurements.waist_width =
              RMul(measurements.shoulder_width, Rat(75, 100))
        /\ \A m \in PoseMeasurements :
              m.shoulder_width = measurements.shoulder_width
              => m.waist_width = measurements.waist_width

\* a pose with hips wider than the shoulders was measured: its waist is
\* three quarters of the shoulder width, not the sum of the widths over 2.2
C15_Witness ==
    /\ Measured
    /\ RLt(RZero, measurements.shoulder_width)
    /\ RLt(measurements.shoulder_width, measurements.hip_width)
    /\ measurements.waist_width = RMul(measurements.shoulder_width, Rat(75, 100))
    /\ measurements.waist_width #
          RDiv(RAdd(measurements.shoulder_width, measurements.hip_width),
               Rat(22, 10))

\* the labels whose rule condition holds for measurements m
Matched(m) ==
    {l \in BodyTypes : CondOf(l, shoulder_hip_ratio(m), waist_hip_ratio(m))}

\* C16: when none of the five rule conditions holds the result is Rectangle
\* with confidence exactly 0.5 and all_scores is that single entry; and a
\* result of Rectangle with confidence 0.5 arises in no other way.
C16_DefaultRectangleHalf ==
    (ClassifyCalled /\ classification # None) =>
        /\ Matched(measurements) = {} =>
              /\ classification.body_type = "Rectangle"
              /\ classification.confidence = Rat(1, 2)
              /\ classification.all_scores = <<<<"Rectangle", Rat(1, 2)>>>>
        /\ (/\ classification.body_type = "Rectangle"
            /\ classification.confidence = Rat(1, 2))
           => Matched(measurements) = {}

\* a direct call with shoulder/hip in [0.85, 0.9) and a narrow waist, where
\* no rule matches, came back as the default
C16_Witness ==
    /\ DirectDone
    /\ RLt(shoulder_hip_ratio(measurements), Rat(9, 10))
    /\ Matched(measurements) = {}
    /\ returned # None
    /\ returned.body_type = "Rectangle"
    /\ returned.confidence = Rat(1, 2)
    /\ Len(returned.all_scores) = 1

\* the order in which classify_body_type evaluates its rules
EvaluationOrder == <<"Rectangle", "Pear", "Inverted Triangle", "Apple", "Hourglass">>

Position(l) == CHOOSE i \in 1..Len(EvaluationOrder) : EvaluationOrder[i] = l

\* C17: all_scores is never empty and holds, in evaluation order, the score
\* of each rule whose condition matched; the returned label is an entry of
\* it, the returned confidence is that entry's score and the maximum of
\* all_scores, and among entries that tie for the maximum the one evaluated
\* earlier (order Rectangle, Pear, Inverted Triangle, Apple, Hourglass) is
\* the one returned.
C17_GreatestScoreEarliestOnTie ==
    (ClassifyCalled /\ classification # None) =>
        LET all_scores == classification.all_scores
            label == classification.body_type
            confidence == classification.confidence
            shr == shoulder_hip_ratio(measurements)
            whr == waist_hip_ratio(measurements)
        IN  /\ all_scores # <<>>
            /\ \E i \in 1..Len(all_scores) : all_scores[i] = <<label, confidence>>
            /\ \A j \in 1..Len(all_scores) :
                  /\ RLe(all_scores[j][2], confidence)
                  /\ (all_scores[j][2] = confidence /\ all_scores[j][1] # label)
                     => Position(label) < Position(all_scores[j][1])
            /\ \A i, j \in 1..Len(all_scores) :
                  i < j => Position(all_scores[i][1]) < Position(all_scores[j][1])
            /\ Matched(measurements) # {} =>
                  /\ {all_scores[j][1] : j \in 1..Len(all_scores)} = Matched(measurements)
                  /\ \A j \in 1..Len(all_scores) :
                        all_scores[j][2] = ScoreOf(all_scores[j][1], shr, whr)
                  /\ label \in Matched(measurements)

\* a direct call where Rectangle and Apple tie for the greatest score came
\* back Rectangle, the rule evaluated earlier
C17_Witness ==
    /\ DirectDone
    /\ returned # None
    /\ returned.body_type = "Rectangle"
    /\ \E j \in 1..Len(returned.all_scores) :
          /\ returned.all_scores[j][1] = "Apple"
          /\ returned.all_scores[j][2] = returned.confidence

\* r = shoulder_width / hip_width and the label analyze_image arrives at,
\* for each full pose with a positive hip width
PoseOutcomes ==
    {[r |-> RDiv(m.shoulder_width, m.hip_width),
      body_type |-> classify_body_type(m).body_type] :
     m \in {n \in PoseMeasurements : RLt(RZero, n.hip_width)}}

\* analyze_image classified a pose with a positive hip width
ClassifiedPose ==
    /\ ViaAnalyzeImage
    /\ ClassifyCalled
    /\ classification # None
    /\ RLt(RZero, measurements.hip_width)

----------------------------------------------------------------------------
(* The Analyze handler of the Streamlit page (app.py, main): one click on  *)
(* "Analyze Body Type" for an uploaded photo. Calls into Streamlit inside  *)
(* a try block may raise; the st.error calls of the except clauses do not. *)

\* uploaded_file.name, as its parts between the dots
UploadedNames ==
    {<<"photo", "png">>, <<"photo", "jpg">>, <<"holiday", "photo", "jpeg">>}

\* uploaded_file.name.split('.')[-1]
Suffix(name) == name[Len(name)]

\* the records analyze_body_type returns (see AnalyzeBodyTypeConvert)
AnalysisResults ==
    {[success |-> FALSE, error |-> e] :
         e \in {"No pose detected in image. Please use a clear full-body image.",
                "IndexError", "ValueError"}}
    \cup {[success |-> TRUE,
           body_type |-> l,
           confidence |-> ROne,
           measurements |-> [shoulder_hip_ratio |-> ROne,
                             waist_hip_ratio |-> Rat(75, 100),
                             waist_definition |-> Rat(25, 100),
                             torso_length |-> ROne],
           recommendations |-> body_types[l]] : l \in BodyTypes}

AppInit ==
    /\ entry = "app.main"
    /\ image_path \in {[name |-> n] : n \in UploadedNames}
    /\ pc = "save_uploaded_file"
    /\ landmarks = None
    /\ image = "None"
    /\ measurements = None
    /\ classification = None
    /\ result = None
    /\ returned = None
    /\ raised = "None"
    /\ NoTempFiles
    /\ NoOutput

\* save_uploaded_file, its value assigned to temp_path: a fresh file of the
\* upload's suffix is created and written and its name returned; or creating
\* it raises and None is returned; or the file is created (delete=False),
\* writing it raises, and None is returned
save_uploaded_file(uploaded_file) ==
    LET tmp_file == [n |-> Cardinality(created) + 1,
                     suffix |-> Suffix(uploaded_file.name)]
    IN  \/ /\ files' = files \cup {tmp_file}
           /\ created' = created \cup {tmp_file}
           /\ temp_path' = tmp_file
        \/ /\ temp_path' = None
           /\ UNCHANGED <<files, created>>
        \/ /\ files' = files \cup {tmp_file}
           /\ created' = created \cup {tmp_file}
           /\ temp_path' = None

\* os.unlink(path): removes the file; raises for None (TypeError) and for a
\* path that does not exist (FileNotFoundError)
os_unlink(path, ok, failed) ==
    /\ unlink_calls' = Append(unlink_calls, path)
    /\ IF path \in files
       THEN files' = files \ {path} /\ pc' = ok
       ELSE files' = files /\ pc' = failed

\* temp_path = save_uploaded_file(uploaded_file); if temp_path:
SaveUploadedFile ==
    /\ pc = "save_uploaded_file"
    /\ save_uploaded_file(image_path)
    /\ pc' = IF temp_path' # None THEN "analyze_body_type" ELSE "done"
    /\ UNCHANGED <<entry, image_path, landmarks, image, measurements,
                   classification, result, returned, raised, unlink_calls>>
    /\ UNCHANGED cli_vars

\* the progress calls and result = classifier.analyze_body_type(temp_path):
\* a record comes back, or one of the calls raises
AnalyzeBodyType ==
    /\ pc = "analyze_body_type"
    /\ \/ \E r \in AnalysisResults : result' = r /\ pc' = "unlink"
       \/ result' = result /\ pc' = "except"
    /\ UNCHANGED <<entry, image_path, landmarks, image, measurements,
                   classification, returned, raised>>
    /\ UNCHANGED <<app_vars, cli_vars>>

\* # Clean up: os.unlink(temp_path)
CleanUp ==
    /\ pc = "unlink"
    /\ os_unlink(temp_path, "display", "except")
    /\ UNCHANGED <<entry, image_path, landmarks, image, measurements,
                   classification, result, returned, raised, temp_path, created>>
    /\ UNCHANGED cli_vars

\* # Display results: the card, measurements and recommendations and the
\* "Show Pose Detection" button for a success record, the error message for
\* a failure record; any of the calls may raise
DisplayResults ==
    /\ pc = "display"
    /\ \/ pc' = "except"
       \/ ~result.success /\ pc' = "done"
       \/ result.success /\ \E pressed \in BOOLEAN :
             pc' = IF pressed THEN "pose_save" ELSE "done"
    /\ UNCHANGED <<entry, image_path, landmarks, image, measurements,
                   classification, result, returned, raised>>
    /\ UNCHANGED <<app_vars, cli_vars>>

\* temp_path = save_uploaded_file(uploaded_file) of the pose branch
PoseSave ==
    /\ pc = "pose_save"
    /\ save_uploaded_file(image_path)
    /\ pc' = "visualize_pose"
    /\ UNCHANGED <<entry, image_path, landmarks, image, measurements,
                   classification, result, returned, raised, unlink_calls>>
    /\ UNCHANGED cli_vars

\* pose_image = classifier.visualize_pose(temp_path), which catches its own
\* exceptions and returns None then, and st.image(pose_image, ...), which
\* may raise when there is an image to show
PoseVisualize ==
    /\ pc = "visualize_pose"
    /\ \/ pc' = "pose_unlink"
       \/ temp_path # None /\ pc' = "pose_except"
    /\ UNCHANGED <<entry, image_path, landmarks, image, measurements,
                   classification, result, returned, raised>>
    /\ UNCHANGED <<app_vars, cli_vars>>

\* os.unlink(temp_path) of the pose branch
PoseUnlink ==
    /\ pc = "pose_unlink"
    /\ os_unlink(temp_path, "done", "pose_except")
    /\ UNCHANGED <<entry, image_path, landmarks, image, measurements,
                   classification, result, returned, raised, temp_path, created>>
    /\ UNCHANGED cli_vars

\* except Exception as e: st.error(...) of the pose branch
PoseExcept ==
    /\ pc = "pose_except"
    /\ pc' = "done"
    /\ UNCHANGED <<entry, image_path, landmarks, image, measurements,
                   classification, result, returned, raised>>
    /\ UNCHANGED <<app_vars, cli_vars>>

\* except Exception as e: st.error(...);
\* if temp_path and os.path.exists(temp_path): os.unlink(temp_path)
OuterExcept ==
    /\ pc = "except"
    /\ IF temp_path # None /\ temp_path \in files
       THEN os_unlink(temp_path, "done", "done")
       ELSE pc' = "done" /\ UNCHANGED <<files, unlink_calls>>
    /\ UNCHANGED <<entry, image_path, landmarks, image, measurements,
                   classification, result, returned, raised, temp_path, created>>
    /\ UNCHANGED cli_vars

AppNext ==
    \/ SaveUploadedFile
    \/ AnalyzeBodyType
    \/ CleanUp
    \/ DisplayResults
    \/ PoseSave
    \/ PoseVisualize
    \/ PoseUnlink
    \/ PoseExcept
    \/ OuterExcept

AppSpec == AppInit /\ [][AppNext]_vars

\* C19: when the Analyze handler has finished, every temporary file that
\* save_uploaded_file created is deleted, on every path, and at no time was
\* a temporary file unlinked twice.
C19_TempFilesDeletedOnce ==
    /\ pc = "done" =>
          /\ files = {}
          /\ \A f \in created : \E i \in 1..Len(unlink_calls) : unlink_calls[i] = f
    /\ \A i, j \in 1..Len(unlink_calls) :
          (i # j /\ unlink_calls[i] # None) => unlink_calls[i] # unlink_calls[j]

----------------------------------------------------------------------------
(* cli_test.main from its try block on: analyze_image, print_results, the  *)
(* JSON file. `raised` holds the exception raised inside the try block.    *)

\* the image files given on the command line: they exist; unreadable, with
\* no pose, or with a pose of visible joints
CliImages == {p \in Images : ~SomeInvisible(p)}

CliInit ==
    /\ entry = "cli_test.main"
    /\ image_path \in CliImages
    /\ pc = "extract_landmarks"
    /\ landmarks = None
    /\ image = "None"
    /\ measurements = None
    /\ classification = None
    /\ result = None
    /\ returned = None
    /\ raised = "None"
    /\ NoTempFiles
    /\ NoOutput

\* the keys print_results reads from result['measurements'], in order
PrintedMeasurements ==
    <<"shoulder_to_hip_ratio", "waist_to_shoulder_ratio", "waist_to_hip_ratio",
      "torso_length">>

\* print_results(result): what it prints, and the exception it raises, if
\* any. A subscript with a key the dict lacks raises KeyError, after the
\* lines before it were printed.
print_results(r) ==
    IF "error" \in DOMAIN r
    THEN [printed |-> <<<<"Error", r.error>>>>, raise |-> "None"]
    ELSE
    LET head == <<<<"Detected Body Type", r.body_type>>,
                  <<"Confidence", r.confidence>>>>
        m == r.measurements
        n == CHOOSE k \in 0..Len(PrintedMeasurements) :
                /\ \A i \in 1..k : PrintedMeasurements[i] \in DOMAIN m
                /\ k < Len(PrintedMeasurements)
                   => PrintedMeasurements[k + 1] \notin DOMAIN m
        lines == [i \in 1..n |-> <<PrintedMeasurements[i], m[PrintedMeasurements[i]]>>]
    IN  IF n < Len(PrintedMeasurements)
        THEN [printed |-> head \o lines, raise |-> "KeyError"]
        ELSE [printed |-> head \o lines
                          \o <<<<"STYLE RECOMMENDATIONS", r.recommendations>>>>,
              raise |-> "None"]

\* json.dump can write r: an image array (unlike None) and a landmark list
\* are not JSON serializable
JsonSerializable(r) ==
    /\ r.image = "None"
    /\ "landmarks" \notin DOMAIN r

\* print_results(result)
PrintResults ==
    /\ entry = "cli_test.main"
    /\ pc = "print_results"
    /\ LET p == print_results(result) IN
       /\ stdout' = stdout \o p.printed
       /\ raised' = p.raise
       /\ pc' = IF p.raise = "None" THEN "save_results" ELSE "except"
    /\ UNCHANGED <<entry, image_path, landmarks, image, measurements,
                   classification, result, returned, output_file>>
    /\ UNCHANGED app_vars

\* with open(output_file, 'w') as f: json.dump(result, f, indent=2), and
\* the "Results saved" line
SaveResults ==
    /\ entry = "cli_test.main"
    /\ pc = "save_results"
    /\ IF JsonSerializable(result)
       THEN /\ output_file' = [complete |-> TRUE]
            /\ stdout' = Append(stdout, <<"Results saved to", "analysis_result_">>)
            /\ raised' = raised
            /\ pc' = "done"
       ELSE /\ output_file' = [complete |-> FALSE]
            /\ stdout' = stdout
            /\ raised' = "TypeError"
            /\ pc' = "except"
    /\ UNCHANGED <<entry, image_path, landmarks, image, measurements,
                   classification, result, returned>>
    /\ UNCHANGED app_vars

\* except Exception as e: print(f"An error occurred: {str(e)}")
CliExcept ==
    /\ entry = "cli_test.main"
    /\ pc = "except"
    /\ stdout' = Append(stdout, <<"An error occurred", raised>>)
    /\ pc' = "done"
    /\ UNCHANGED <<entry, image_path, landmarks, image, measurements,
                   classification, result, returned, raised, output_file>>
    /\ UNCHANGED app_vars

CliNext ==
    \/ ExtractLandmarks
    \/ CalculateBodyMeasurements
    \/ ClassifyBodyType
    \/ GetRecommendations
    \/ PrintResults
    \/ SaveResults
    \/ CliExcept

CliSpec == CliInit /\ [][CliNext]_vars

\* a line with this title was printed
Printed(title) == \E i \in 1..Len(stdout) : stdout[i][1] = title

\* C20: in cli_test.main, when analyze_image has returned a success record,
\* print_results prints the body type, the confidence and the measurements
\* and raises nothing, the run comes to write the result file, and the
\* except branch is not taken.
C20_SuccessPrintedAndSaved ==
    (entry = "cli_test.main" /\ result # None /\ result.success) =>
        /\ pc # "except"
        /\ pc \in {"save_results", "done"} =>
              /\ Printed("Detected Body Type")
              /\ Printed("Confidence")
              /\ \A i \in 1..Len(PrintedMeasurements) : Printed(PrintedMeasurements[i])
        /\ pc = "done" =>
              /\ output_file # None
              /\ ~Printed("An error occurred")

----------------------------------------------------------------------------
(* image_utils.preprocess_for_pose_detection: the resize of a large image. *)
(* The new side int(side * (max_dimension / longer)) is computed as the    *)
(* code computes it, in IEEE-754 double precision. A float is a sequence   *)
(* of digits to the base 512 (9 bits each), most significant first; the    *)
(* model takes sides below 2^13.                                           *)

max_dimension == 1024

\* the number of significand bits of a double
MantissaBits == 53

\* the digits of the model's arithmetic: 9 bits each
DigitBits == 9
Base == 2 ^ DigitBits

\* MantissaBits and one rounding bit, in digits
MantissaDigits == (MantissaBits + 1) \div DigitBits

\* the small sides an image can have are 1..MaxSmall
MaxSmall == 3

\* sides around max_dimension are max_dimension - MaxSpread .. + MaxSpread
MaxSpread == 2

\* sides well beyond max_dimension
LargeSides == {1122, 1288, 2048, 2049, 3072, 4096}

Sides ==
    (1..MaxSmall)
    \cup ((max_dimension - MaxSpread)..(max_dimension + MaxSpread))
    \cup LargeSides

\* the image files preprocess_for_pose_detection can be given: cv2.imread
\* returns None, or an array of shape (height, width, 3)
PreprocessImages ==
    {[readable |-> FALSE, shape |-> <<1, 1>>]}
    \cup {[readable |-> TRUE, shape |-> <<h, w>>] : h \in Sides, w \in Sides}

Max(a, b) == IF a > b THEN a ELSE b

Front(digits) == SubSeq(digits, 1, Len(digits) - 1)

Last(digits) == digits[Len(digits)]

\* a / b for 0 < a < b as a binary fraction: r is a * 2^zeros, where zeros
\* is the number of zero bits between the point and the first 1 bit
RECURSIVE Normalize(_, _, _)
Normalize(r, b, zeros) ==
    IF 2 * r >= b THEN [r |-> r, zeros |-> zeros]
    ELSE Normalize(2 * r, b, zeros + 1)

\* the next n digits of r / b after the point (r < b), and the remainder
RECURSIVE DivDigits(_, _, _)
DivDigits(r, b, n) ==
    IF n = 0 THEN [digits |-> <<>>, rem |-> r]
    ELSE LET digit == (r * Base) \div b
             rest == DivDigits((r * Base) % b, b, n - 1)
         IN  [digits |-> <<digit>> \o rest.digits, rem |-> rest.rem]

\* the digits of n >= 0
RECURSIVE DigitsOf(_)
DigitsOf(n) == IF n = 0 THEN <<>> ELSE DigitsOf(n \div Base) \o <<n % Base>>

RECURSIVE DigitsValue(_)
DigitsValue(digits) ==
    IF digits = <<>> THEN 0
    ELSE Base * DigitsValue(Front(digits)) + Last(digits)

\* digits * s + carry, exactly
RECURSIVE MulDigits(_, _, _)
MulDigits(digits, s, carry) ==
    IF digits = <<>> THEN DigitsOf(carry)
    ELSE LET t == Last(digits) * s + carry
         IN  MulDigits(Front(digits), s, t \div Base) \o <<t % Base>>

\* the number of bits of n >= 0
RECURSIVE BitLength(_)
BitLength(n) == IF n = 0 THEN 0 ELSE 1 + BitLength(n \div 2)

\* the float a / b for integers 0 < a < b: the first MantissaBits
\* significant bits of the quotient, rounded to nearest, ties to even. The
\* digits hold these bits and a last bit 0; the value is the integer
\* `digits` times 2^-frac.
FloatDiv(a, b) ==
    LET norm == Normalize(a, b, 0)
        q == DivDigits(norm.r, b, MantissaDigits)
        round_bit == Last(q.digits) % 2
        last_kept == (Last(q.digits) \div 2) % 2
        sticky == q.rem # 0
        kept == Front(q.digits) \o <<Last(q.digits) - round_bit>>
        up == round_bit = 1 /\ (sticky \/ last_kept = 1)
    IN  [digits |-> IF up THEN MulDigits(kept, 1, 2) ELSE kept,
         frac |-> norm.zeros + MantissaDigits * DigitBits]

\* int(s * f) for an integer s >= 1 and a float f in (0, 1): the exact
\* product is rounded to MantissaBits significant bits and then truncated.
\* With K the integer part of the exact product, the rounding reaches K + 1
\* exactly when every fraction bit that is kept, and the first one dropped,
\* is 1. (The product is taken with s * 2^shift so that the binary point
\* falls between two digits.)
IntOfProduct(s, f) ==
    LET shift == (DigitBits - (f.frac % DigitBits)) % DigitBits
        product == MulDigits(f.digits, s * (2 ^ shift), 0)
        places == (f.frac + shift) \div DigitBits
        padded == IF Len(product) >= places THEN product
                  ELSE [i \in 1..(places - Len(product)) |-> 0] \o product
        integer == SubSeq(padded, 1, Len(padded) - places)
        fraction == SubSeq(padded, Len(padded) - places + 1, Len(padded))
        K == DigitsValue(integer)
        needed == MantissaBits + 1 - BitLength(K)
        whole == needed \div DigitBits
        part == needed % DigitBits
        Digit(i) == IF i <= Len(fraction) THEN fraction[i] ELSE 0
        ones == /\ \A i \in 1..whole : Digit(i) = Base - 1
                /\ part > 0 =>
                      Digit(whole + 1) \div (2 ^ (DigitBits - part)) = (2 ^ part) - 1
    IN  IF ones THEN K + 1 ELSE K

\* int(side * (max_dimension / longer)), for longer > max_dimension
ScaledSide(side, longer) == IntOfProduct(side, FloatDiv(max_dimension, longer))

\* the (height, width) the resize branch asks cv2.resize for
NewShape(shape) ==
    LET height == shape[1]
        width == shape[2]
    IN  IF width > height
        THEN <<ScaledSide(height, width), max_dimension>>
        ELSE <<max_dimension, ScaledSide(width, height)>>

PreprocessInit ==
    /\ entry = "preprocess_for_pose_detection"
    /\ image_path \in PreprocessImages
    /\ pc = "imread"
    /\ landmarks = None
    /\ image = None
    /\ measurements = None
    /\ classification = None
    /\ result = None
    /\ returned = None
    /\ raised = "None"
    /\ NoTempFiles
    /\ NoOutput

\* image = cv2.imread(image_path); if image is None: return None;
\* image_rgb = cv2.cvtColor(image, cv2.COLOR_BGR2RGB)
PreprocessLoad ==
    /\ pc = "imread"
    /\ IF ~image_path.readable
       THEN pc' = "done" /\ image' = image
       ELSE pc' = "resize" /\ image' = [shape |-> image_path.shape]
    /\ UNCHANGED <<entry, image_path, landmarks, measurements, classification,
                   result, returned, raised>>
    /\ UNCHANGED <<app_vars, cli_vars>>

\* if max(height, width) > max_dimension: ... image_rgb = cv2.resize(...).
\* cv2.resize raises for a target size with a side of 0.
PreprocessResize ==
    /\ pc = "resize"
    /\ LET height == image.shape[1]
           width == image.shape[2]
           new == NewShape(image.shape)
       IN  IF Max(height, width) > max_dimension
           THEN IF new[1] <= 0 \/ new[2] <= 0
                THEN /\ raised' = "cv2.error"
                     /\ image' = image
                     /\ pc' = "except"
                ELSE /\ image' = [shape |-> new]
                     /\ raised' = raised
                     /\ pc' = "return"
           ELSE /\ pc' = "return"
                /\ UNCHANGED <<image, raised>>
    /\ UNCHANGED <<entry, image_path, landmarks, measurements, classification,
                   result, returned>>
    /\ UNCHANGED <<app_vars, cli_vars>>

\* return image_rgb
PreprocessReturn ==
    /\ pc = "return"
    /\ returned' = image
    /\ pc' = "done"
    /\ UNCHANGED <<entry, image_path, landmarks, image, measurements,
                   classification, result, raised>>
    /\ UNCHANGED <<app_vars, cli_vars>>

\* except Exception as e: print(f"Error preprocessing image: {e}"); return None
PreprocessExcept ==
    /\ entry = "preprocess_for_pose_detection"
    /\ pc = "except"
    /\ stdout' = Append(stdout, <<"Error preprocessing image", raised>>)
    /\ returned' = None
    /\ pc' = "done"
    /\ UNCHANGED <<entry, image_path, landmarks, image, measurements,
                   classification, result, raised, output_file>>
    /\ UNCHANGED app_vars

PreprocessNext ==
    \/ PreprocessLoad
    \/ PreprocessResize
    \/ PreprocessReturn
    \/ PreprocessExcept

PreprocessSpec == PreprocessInit /\ [][PreprocessNext]_vars

\* C21: for a readable image of height h >= 1 and width w >= 1,
\* preprocess_for_pose_detection returns an image, not None, whose larger
\* dimension is at most 1024 and whose dimensions are both at least 1; an
\* image with max(h, w) <= 1024 keeps its dimensions, and a larger one gets
\* its longer side set to 1024 and the other one to the floor of its
\* length times 1024 / longer side.
C21_ResizedWithinBounds ==
    (/\ entry = "preprocess_for_pose_detection"
     /\ pc = "done"
     /\ image_path.readable)
    => LET h == image_path.shape[1]
           w == image_path.shape[2]
       IN  /\ returned # None
           /\ Max(returned.shape[1], returned.shape[2]) <= max_dimension
           /\ returned.shape[1] >= 1
           /\ returned.shape[2] >= 1
           /\ Max(h, w) <= max_dimension => returned.shape = image_path.shape
           /\ Max(h, w) > max_dimension =>
                 returned.shape =
                     IF w > h THEN <<(h * max_dimension) \div w, max_dimension>>
                     ELSE <<max_dimension, (w * max_dimension) \div h>>

====
